---- MODULE Spec2Model ----
(***************************************************************************)
(* Soccer-ball texture generator (gen_texture.py).                         *)
(*                                                                         *)
(* Numbers: every Python float is held as an integer count of 1/1000       *)
(* (S below): 0.5 is 500, 15 degrees is 15000, pi is 3142.  Addition is    *)
(* exact, multiplication and division round to the nearest 1/1000, int()   *)
(* truncates toward zero, and a float division by 0 raises                 *)
(* ZeroDivisionError as in Python.  math.sin and math.atan are tables with *)
(* linear interpolation, so results agree with the float code to about     *)
(* 0.2 degrees.  Python ints stay integers.                                *)
(*                                                                         *)
(* The raster library (PIL) is outside the program: the raster is observed *)
(* through the calls made on it (ellipse stamps, flood fills, save).       *)
(***************************************************************************)
EXTENDS Integers, Sequences, FiniteSets, TLC

\* ------------------------------------------------------------------------
\* Fixed-point arithmetic
\* ------------------------------------------------------------------------

\* one unit of a float value
S == 10^3

Abs(x) == IF x < 0 THEN -x ELSE x

Max(a, b) == IF a >= b THEN a ELSE b

Min(a, b) == IF a <= b THEN a ELSE b

\* int(n/d) for d > 0: truncation toward zero
Quot(n, d) == IF n >= 0 THEN n \div d ELSE -((-n) \div d)

\* n/d for d > 0 rounded to the nearest integer
RDiv(n, d) == IF n >= 0 THEN (n + d \div 2) \div d ELSE -(((-n) + d \div 2) \div d)

\* float * float
FMul(a, b) == RDiv(a * b, S)

\* float / float, b > 0 (the callers raise ZeroDivisionError on b = 0 first)
FDiv(a, b) == RDiv(a * S, b)

\* p / q of two ints (true division), q > 0
TrueDiv(p, q) == RDiv(p * S, q)

\* int(x) of a float
PyInt(x) == Quot(x, S)

\* round(x) of a float (not used by the program; the rounding the description of
\* the stroke radius names)
PyRound(x) == RDiv(x, S)

RECURSIVE SumSeq(_)
SumSeq(s) == IF s = <<>> THEN 0 ELSE Head(s) + SumSeq(Tail(s))

RECURSIVE MaxSeq(_)
MaxSeq(s) == IF Len(s) = 1 THEN s[1] ELSE Max(Head(s), MaxSeq(Tail(s)))

RECURSIVE MinSeq(_)
MinSeq(s) == IF Len(s) = 1 THEN s[1] ELSE Min(Head(s), MinSeq(Tail(s)))

\* ------------------------------------------------------------------------
\* math module
\* ------------------------------------------------------------------------

\* math.pi
Pi == 3142

\* math.pi / 2
PiHalf == FDiv(Pi, 2 * S)

\* sin(k/100) for k = 0..159, in 1/1000
SinTab ==
  <<
    0, 10, 20, 30, 40, 50, 60, 70, 80, 90, 100, 110, 120, 130, 140, 149,
    159, 169, 179, 189, 199, 208, 218, 228, 238, 247, 257, 267, 276, 286, 296, 305,
    315, 324, 333, 343, 352, 362, 371, 380, 389, 399, 408, 417, 426, 435, 444, 453,
    462, 471, 479, 488, 497, 506, 514, 523, 531, 540, 548, 556, 565, 573, 581, 589,
    597, 605, 613, 621, 629, 637, 644, 652, 659, 667, 674, 682, 689, 696, 703, 710,
    717, 724, 731, 738, 745, 751, 758, 764, 771, 777, 783, 790, 796, 802, 808, 813,
    819, 825, 830, 836, 841, 847, 852, 857, 862, 867, 872, 877, 882, 887, 891, 896,
    900, 904, 909, 913, 917, 921, 925, 928, 932, 936, 939, 942, 946, 949, 952, 955,
    958, 961, 964, 966, 969, 971, 973, 976, 978, 980, 982, 984, 985, 987, 989, 990,
    991, 993, 994, 995, 996, 997, 997, 998, 999, 999, 1000, 1000, 1000, 1000, 1000, 1000
  >>

\* atan(k/100) for k = 0..101, in 1/1000
AtanTab ==
  <<
    0, 10, 20, 30, 40, 50, 60, 70, 80, 90, 100, 110, 119, 129, 139, 149,
    159, 168, 178, 188, 197, 207, 217, 226, 236, 245, 254, 264, 273, 282, 291, 301,
    310, 319, 328, 337, 346, 354, 363, 372, 381, 389, 398, 406, 415, 423, 431, 439,
    448, 456, 464, 472, 480, 487, 495, 503, 510, 518, 526, 533, 540, 548, 555, 562,
    569, 576, 583, 590, 597, 604, 611, 617, 624, 631, 637, 644, 650, 656, 662, 669,
    675, 681, 687, 693, 699, 704, 710, 716, 722, 727, 733, 738, 744, 749, 754, 760,
    765, 770, 775, 780, 785, 790
  >>

\* sin on [0, pi/2]
SinQ(x) ==
  LET i == x \div 10
      f == x % 10
  IN  SinTab[i + 1] + RDiv((SinTab[i + 2] - SinTab[i + 1]) * f, 10)

\* sin for x >= 0
SinPos(x) ==
  LET r == x % (2 * Pi)
  IN  IF r <= PiHalf THEN SinQ(r)
      ELSE IF r <= Pi THEN SinQ(Pi - r)
      ELSE IF r <= Pi + PiHalf THEN -SinQ(r - Pi)
      ELSE -SinQ(2 * Pi - r)

MathSin(x) == IF x < 0 THEN -SinPos(-x) ELSE SinPos(x)

MathCos(x) == MathSin(x + PiHalf)

RECURSIVE ISqrtFrom(_, _, _)
ISqrtFrom(n, r, b) ==
  IF b = 0 THEN r
  ELSE IF (r + b) * (r + b) <= n THEN ISqrtFrom(n, r + b, b \div 2)
  ELSE ISqrtFrom(n, r, b \div 2)

\* math.sqrt(x), x >= 0
MathSqrt(x) ==
  LET n == x * S
      r == ISqrtFrom(n, 0, 2^14)
  IN  IF n - r * r > r THEN r + 1 ELSE r

\* atan on [0, 1]
AtanQ(q) ==
  LET i == q \div 10
      f == q % 10
  IN  AtanTab[i + 1] + RDiv((AtanTab[i + 2] - AtanTab[i + 1]) * f, 10)

\* atan2 for x, y >= 0, not both 0
AtanPos(y, x) == IF y <= x THEN AtanQ(FDiv(y, x)) ELSE PiHalf - AtanQ(FDiv(x, y))

MathAtan2(y, x) ==
  IF x = 0 /\ y = 0 THEN 0
  ELSE IF x >= 0 /\ y >= 0 THEN AtanPos(y, x)
  ELSE IF x < 0 /\ y >= 0 THEN Pi - AtanPos(y, -x)
  ELSE IF x < 0 /\ y < 0 THEN -(Pi - AtanPos(-y, -x))
  ELSE -AtanPos(-y, x)

\* math.asin(z), -1 <= z <= 1
MathAsin(z) == MathAtan2(z, MathSqrt(S - FMul(z, z)))

\* math.radians(x)
Radians(x) == RDiv(x * Pi, 180 * S)

\* math.degrees(x)
Degrees(x) == RDiv(x * 180 * S, Pi)

\* ------------------------------------------------------------------------
\* Truncated icosahedron geometry
\* ------------------------------------------------------------------------

Sqrt5 == MathSqrt(5 * S)

Half == S \div 2

C0 == RDiv(S + Sqrt5, 4)

C1 == RDiv(S + Sqrt5, 2)

C2 == RDiv(5 * S + Sqrt5, 4)

C3 == RDiv(2 * S + Sqrt5, 2)

C4 == RDiv(3 * (S + Sqrt5), 4)

VERTICES ==
  <<
    <<Half, 0, C4>>, <<Half, 0, -C4>>, <<-Half, 0, C4>>, <<-Half, 0, -C4>>, <<C4, Half, 0>>, <<C4, -Half, 0>>, <<-C4, Half, 0>>,
    <<-C4, -Half, 0>>, <<0, C4, Half>>, <<0, C4, -Half>>, <<0, -C4, Half>>, <<0, -C4, -Half>>, <<S, C0, C3>>, <<S, C0, -C3>>,
    <<S, -C0, C3>>, <<S, -C0, -C3>>, <<-S, C0, C3>>, <<-S, C0, -C3>>, <<-S, -C0, C3>>, <<-S, -C0, -C3>>, <<C3, S, C0>>,
    <<C3, S, -C0>>, <<C3, -S, C0>>, <<C3, -S, -C0>>, <<-C3, S, C0>>, <<-C3, S, -C0>>, <<-C3, -S, C0>>, <<-C3, -S, -C0>>,
    <<C0, C3, S>>, <<C0, C3, -S>>, <<C0, -C3, S>>, <<C0, -C3, -S>>, <<-C0, C3, S>>, <<-C0, C3, -S>>, <<-C0, -C3, S>>,
    <<-C0, -C3, -S>>, <<Half, C1, C2>>, <<Half, C1, -C2>>, <<Half, -C1, C2>>, <<Half, -C1, -C2>>, <<-Half, C1, C2>>, <<-Half, C1, -C2>>,
    <<-Half, -C1, C2>>, <<-Half, -C1, -C2>>, <<C2, Half, C1>>, <<C2, Half, -C1>>, <<C2, -Half, C1>>, <<C2, -Half, -C1>>, <<-C2, Half, C1>>,
    <<-C2, Half, -C1>>, <<-C2, -Half, C1>>, <<-C2, -Half, -C1>>, <<C1, C2, Half>>, <<C1, C2, -Half>>, <<C1, -C2, Half>>, <<C1, -C2, -Half>>,
    <<-C1, C2, Half>>, <<-C1, C2, -Half>>, <<-C1, -C2, Half>>, <<-C1, -C2, -Half>>
  >>

\* vertex indices are 0-based as in the source; FACES[k] is the k-th face
FACES ==
  <<
    <<0, 2, 18, 42, 38, 14>>, <<0, 2, 18, 42, 38, 14>>, <<1, 3, 17, 41, 37, 13>>,
    <<2, 0, 12, 36, 40, 16>>, <<3, 1, 15, 39, 43, 19>>, <<4, 5, 23, 47, 45, 21>>,
    <<5, 4, 20, 44, 46, 22>>, <<6, 7, 26, 50, 48, 24>>, <<7, 6, 25, 49, 51, 27>>,
    <<8, 9, 33, 57, 56, 32>>, <<9, 8, 28, 52, 53, 29>>, <<10, 11, 31, 55, 54, 30>>,
    <<11, 10, 34, 58, 59, 35>>, <<12, 44, 20, 52, 28, 36>>, <<13, 37, 29, 53, 21, 45>>,
    <<14, 38, 30, 54, 22, 46>>, <<15, 47, 23, 55, 31, 39>>, <<16, 40, 32, 56, 24, 48>>,
    <<17, 49, 25, 57, 33, 41>>, <<18, 50, 26, 58, 34, 42>>, <<19, 43, 35, 59, 27, 51>>,

    <<0, 14, 46, 44, 12>>, <<1, 13, 45, 47, 15>>, <<2, 16, 48, 50, 18>>,
    <<3, 19, 51, 49, 17>>, <<4, 21, 53, 52, 20>>, <<5, 22, 54, 55, 23>>,
    <<6, 24, 56, 57, 25>>, <<7, 27, 59, 58, 26>>, <<8, 32, 40, 36, 28>>,
    <<9, 29, 37, 41, 33>>, <<10, 30, 38, 42, 34>>, <<11, 35, 43, 39, 31>>
  >>

\* VERTICES[idx] of the source (0-based index)
Vertex(idx) == VERTICES[idx + 1]

xyz_to_lonlat(x, y, z) ==
  LET r  == MathSqrt(FMul(x, x) + FMul(y, y) + FMul(z, z))
      xn == FDiv(x, r)
      yn == FDiv(y, r)
      zn == FDiv(z, r)
      lon == MathAtan2(yn, xn)
      lat == MathAsin(zn)
  IN  <<Degrees(lon), Degrees(lat)>>

\* lonlat_to_xy without the wrap of u (line 83 dropped)
lonlat_to_xy_nowrap(lon_deg, lat_deg, width, height) ==
  LET lon_rad == Radians(lon_deg)
      lat_rad == Radians(lat_deg)
      u == PyInt(FDiv(lon_rad + Pi, 2 * Pi) * width)
      v == PyInt(FDiv(PiHalf - lat_rad, Pi) * height)
  IN  <<u, Max(0, Min(height - 1, v))>>

lonlat_to_xy(lon_deg, lat_deg, width, height) ==
  LET lon_rad == Radians(lon_deg)
      lat_rad == Radians(lat_deg)
      u == PyInt(FDiv(lon_rad + Pi, 2 * Pi) * width)
      v == PyInt(FDiv(PiHalf - lat_rad, Pi) * height)
  IN  <<u % width, Max(0, Min(height - 1, v))>>

\* lines 105-123: rotate every vertex and project it to (lon, lat)
project_vertices(lat_rotation, lon_rotation) ==
  LET lat_rot_rad == Radians(lat_rotation * S)
      lon_rot_rad == Radians(lon_rotation * S)
      one(k) ==
        LET x  == Vertex(k)[1]
            y  == Vertex(k)[2]
            z  == Vertex(k)[3]
            x1 == x
            y1 == FMul(y, MathCos(lat_rot_rad)) - FMul(z, MathSin(lat_rot_rad))
            z1 == FMul(y, MathSin(lat_rot_rad)) + FMul(z, MathCos(lat_rot_rad))
            x_rot == FMul(x1, MathCos(lon_rot_rad)) + FMul(z1, MathSin(lon_rot_rad))
            y_rot == y1
            z_rot == (-FMul(x1, MathSin(lon_rot_rad))) + FMul(z1, MathCos(lon_rot_rad))
        IN  xyz_to_lonlat(x_rot, y_rot, z_rot)
  IN  [k \in 1..Len(VERTICES) |-> one(k - 1)]

\* ------------------------------------------------------------------------
\* Edge rasterizer (main, lines 125-179)
\* ------------------------------------------------------------------------

\* ImageColor.getrgb for the colour names used here
getrgb(color) ==
  IF color = "black" THEN <<0, 0, 0>>
  ELSE IF color = "white" THEN <<255, 255, 255>>
  ELSE <<255, 0, 0>>

\* x**2
Sq(x) == FMul(x, x)

\* line 149: the angle for haversine term a
angle_of(a) == 2 * MathAtan2(MathSqrt(a), MathSqrt(S - a))

\* lines 145-149: haversine central angle of two points given in radians
central_angle(lat1, lon1, lat2, lon2) ==
  angle_of(Sq(MathSin(FDiv(lat2 - lat1, 2 * S)))
           + FMul(FMul(MathCos(lat1), MathCos(lat2)), Sq(MathSin(FDiv(lon2 - lon1, 2 * S)))))

\* lines 155-156: sin(t * c) / sin(c), sin(c) # 0
slerp_weight(t, c) == FDiv(MathSin(FMul(t, c)), MathSin(c))

\* lines 159-161: a * P1 + b * P2 as (x, y, z)
combine(a, b, lat1, lon1, lat2, lon2) ==
  << FMul(FMul(a, MathCos(lat1)), MathCos(lon1)) + FMul(FMul(b, MathCos(lat2)), MathCos(lon2)),
     FMul(FMul(a, MathCos(lat1)), MathSin(lon1)) + FMul(FMul(b, MathCos(lat2)), MathSin(lon2)),
     FMul(a, MathSin(lat1)) + FMul(b, MathSin(lat2)) >>

\* lines 164-170: (x, y, z) back to (lon_deg, lat_deg)
to_lonlat_deg(x, y, z) ==
  << Degrees(MathAtan2(y, x)), Degrees(MathAtan2(z, MathSqrt(Sq(x) + Sq(y)))) >>

\* lines 152-170: arc point for interpolation parameter f
slerp_from(p) == to_lonlat_deg(p[1], p[2], p[3])

slerp_point(f, c, lat1, lon1, lat2, lon2) ==
  slerp_from(combine(slerp_weight(S - f, c), slerp_weight(f, c), lat1, lon1, lat2, lon2))

\* lines 151-170 for endpoints in radians and their central angle c
arc_of(lat1, lon1, lat2, lon2, c, interpolation_points) ==
  IF interpolation_points <= 0
    THEN [err |-> "none", points |-> <<>>]                  \* range() is empty
  ELSE IF interpolation_points - 1 = 0
    THEN [err |-> "ZeroDivisionError", points |-> <<>>]     \* j / 0 at j = 0
  ELSE IF MathSin(c) = 0
    THEN [err |-> "ZeroDivisionError", points |-> <<>>]     \* sin(..) / sin(c)
  ELSE [err |-> "none",
        points |-> [j \in 1..interpolation_points |->
                      slerp_point(TrueDiv(j - 1, interpolation_points - 1), c,
                                  lat1, lon1, lat2, lon2)]]

\* lines 139-149 then 151-170 for endpoints in radians
arc_rad(lat1, lon1, lat2, lon2, interpolation_points) ==
  arc_of(lat1, lon1, lat2, lon2, central_angle(lat1, lon1, lat2, lon2), interpolation_points)

\* lines 135-170: the points list of one edge, or the exception the loop raises
arc_points(start, end, interpolation_points) ==
  arc_rad(Radians(start[2]), Radians(start[1]), Radians(end[2]), Radians(end[1]),
          interpolation_points)

\* line 175
lat_factor(lat) == FDiv(S, Max(1, MathCos(Radians(Abs(lat)))))

\* line 176 with round() in place of int()
lat_adjusted_radius_round(lat, edge_thickness) == PyRound(edge_thickness * lat_factor(lat))

\* line 176
lat_adjusted_radius(lat, edge_thickness) == PyInt(edge_thickness * lat_factor(lat))

\* lines 173-179: the draw.ellipse call made for one arc point
ellipse(lon, lat, width, height, edge_thickness, edge_rgb) ==
  LET pxy == lonlat_to_xy(lon, lat, width, height)
      px == pxy[1]
      py == pxy[2]
      r == lat_adjusted_radius(lat, edge_thickness)
  IN  [xy |-> <<px - r, py - edge_thickness, px + r, py + edge_thickness>>, fill |-> edge_rgb]

\* after_edge with the fill loop entered at the end of every face (the fill
\* loop nested in the face loop)
after_edge_nested(face_no, i) ==
  IF i + 1 < Len(FACES[face_no]) THEN [pc |-> "interp", face_no |-> face_no, i |-> i + 1]
  ELSE [pc |-> "fill", face_no |-> 1, i |-> 0]

\* lines 126-133, 181: where main continues once edge i of FACES[face_no] is drawn
after_edge(face_no, i) ==
  IF i + 1 < Len(FACES[face_no]) THEN [pc |-> "interp", face_no |-> face_no, i |-> i + 1]
  ELSE IF face_no < Len(FACES) THEN [pc |-> "interp", face_no |-> face_no + 1, i |-> 0]
  ELSE [pc |-> "fill", face_no |-> 1, i |-> 0]

\* ------------------------------------------------------------------------
\* Region filler (main, lines 181-226)
\* ------------------------------------------------------------------------

\* line 188
margin(width) == PyInt(80 * width)

\* line 190 accepting every face
is_pentagon_any(face_list) == Len(face_list) >= 5

\* line 190
is_pentagon(face_list) == Len(face_list) = 5

\* lines 200-212 with the "% width" of line 210 dropped
center_u_nomod(u_coords, width) ==
  LET adjusted_u == [n \in 1..Len(u_coords) |->
                       IF u_coords[n] * S < TrueDiv(width, 2)
                       THEN u_coords[n] + width ELSE u_coords[n]]
  IN  IF (MaxSeq(u_coords) - MinSeq(u_coords)) * S > TrueDiv(width, 2)
      THEN PyInt(TrueDiv(SumSeq(adjusted_u), 5))
      ELSE PyInt(TrueDiv(SumSeq(u_coords), 5))

\* lines 200-212 without the wrap-around branch
center_u_naive(u_coords, width) == PyInt(TrueDiv(SumSeq(u_coords), 5))

\* lines 200-212
center_u(u_coords, width) ==
  LET min_u == MinSeq(u_coords)
      max_u == MaxSeq(u_coords)
      adjusted_u == [k \in 1..Len(u_coords) |->
                       IF u_coords[k] * S < TrueDiv(width, 2)
                       THEN u_coords[k] + width ELSE u_coords[k]]
  IN  IF (max_u - min_u) * S > TrueDiv(width, 2)
      THEN PyInt(TrueDiv(SumSeq(adjusted_u), 5)) % width
      ELSE PyInt(TrueDiv(SumSeq(u_coords), 5))

\* line 214
center_v(v_coords) == PyInt(TrueDiv(SumSeq(v_coords), 5))

\* lines 192-198: pixel coordinates of the vertices of a face
face_pixels(face_list, lonlat, width, height) ==
  [k \in 1..Len(face_list) |->
     lonlat_to_xy(lonlat[face_list[k] + 1][1], lonlat[face_list[k] + 1][2], width, height)]

\* lines 192-214: the flood-fill seed of a pentagon
face_center(face_list, lonlat, width, height) ==
  LET uv == face_pixels(face_list, lonlat, width, height)
      u_coords == [k \in 1..Len(uv) |-> uv[k][1]]
      v_coords == [k \in 1..Len(uv) |-> uv[k][2]]
  IN  <<center_u(u_coords, width), center_v(v_coords)>>

\* lines 219-226 with the two mirror columns exchanged
mirror_seeds_swapped(cu, cv, width) ==
  IF cu < margin(width) THEN << <<1, cv>> >>
  ELSE IF cu > width - margin(width) THEN << <<width - 1, cv>> >>
  ELSE <<>>

\* lines 219-226: the seeds of the seam-mirror fills for a centre (none or one)
mirror_seeds(cu, cv, width) ==
  IF cu < margin(width) THEN << <<width - 1, cv>> >>
  ELSE IF cu > width - margin(width) THEN << <<1, cv>> >>
  ELSE <<>>

\* lines 200-226: the seeds of all floodfill calls made for one pentagon, in
\* call order, from the pixel coordinates of its vertices
fill_seeds(u_coords, v_coords, width) ==
  << <<center_u(u_coords, width), center_v(v_coords)>> >>
  \o mirror_seeds(center_u(u_coords, width), center_v(v_coords), width)

\* line 182: where main continues once FACES[face_no] has been filled or skipped
after_fill(face_no) ==
  IF face_no < Len(FACES) THEN [pc |-> "fill", face_no |-> face_no + 1]
  ELSE [pc |-> "finish", face_no |-> face_no]

\* lines 228-232 returning the image in both modes
finish_returns_img(name) ==
  IF name = "None" THEN [ret |-> "img", saves |-> <<>>]
  ELSE [ret |-> "img", saves |-> <<name>>]

\* lines 228-232: what main does with the finished image
finish(name) ==
  IF name = "None" THEN [ret |-> "img", saves |-> <<>>]
  ELSE [ret |-> "None", saves |-> <<name>>]

\* ------------------------------------------------------------------------
\* State
\* ------------------------------------------------------------------------

VARIABLES
  \* arguments of main ("None" stands for None)
  file_name, edge_thickness, width, height, pentagon_color, edge_color,
  interpolation_points, lat_rotation, lon_rotation,
  \* locals of main
  pc,             \* position in main
  vertex_lonlat,  \* projected vertices, <<>> before line 123
  face_no,        \* number of the face of the running loop, 1..Len(FACES)
  i,              \* edge index inside the face (0-based, as in the source)
  points,         \* arc points of the current edge
  k,              \* number of the next point of points to stamp
  center,         \* (center_u, center_v) of the pentagon being filled
  \* calls made on the raster
  ellipses,       \* number of draw.ellipse calls so far
  last_ellipse,   \* arguments of the last draw.ellipse call
  edges_drawn,    \* number of edges whose stamping loop has ended
  fills,          \* ImageDraw.floodfill calls so far, in order
  saves,          \* img.save calls so far, in order
  ret,            \* what main returned: "img" or "None"; "-" while running
  err,            \* the exception that ended main, "none" otherwise
  \* a single call of one function on its own
  fn, fn_args, fn_ret

args == <<file_name, edge_thickness, width, height, pentagon_color, edge_color,
          interpolation_points, lat_rotation, lon_rotation>>

locals == <<pc, vertex_lonlat, face_no, i, points, k, center>>

raster == <<ellipses, last_ellipse, edges_drawn, fills, saves>>

call == <<fn, fn_args, fn_ret>>

vars == <<args, locals, raster, ret, err, call>>

\* ------------------------------------------------------------------------
\* Bounds of the checked instances
\* ------------------------------------------------------------------------

\* largest interpolation point count
MaxPoints == 3

\* largest edge thickness
MaxThick == 2

\* raster sizes: a small one and the default
Sizes == { <<64, 32>>, <<1024, 512>> }

\* (lat_rotation, lon_rotation): the default and one with pentagons on both
\* sides of the seam
Rotations == { <<15, 0>>, <<45, 0>> }

\* ------------------------------------------------------------------------
\* main
\* ------------------------------------------------------------------------

NoCall == fn = "main" /\ fn_args = <<>> /\ fn_ret = <<>>

Init ==
  /\ file_name \in {"None", "soccer_ball_texture.png"}
  /\ edge_thickness \in 1..MaxThick
  /\ \E size \in Sizes : width = size[1] /\ height = size[2]
  /\ pentagon_color = "black"
  /\ edge_color \in {"None", "red"}
  /\ interpolation_points \in (-1)..MaxPoints
  /\ \E rot \in Rotations : lat_rotation = rot[1] /\ lon_rotation = rot[2]
  /\ pc = "start"
  /\ vertex_lonlat = <<>>
  /\ face_no = 1
  /\ i = 0
  /\ points = <<>>
  /\ k = 1
  /\ center = <<>>
  /\ ellipses = 0
  /\ last_ellipse = <<>>
  /\ edges_drawn = 0
  /\ fills = <<>>
  /\ saves = <<>>
  /\ ret = "-"
  /\ err = "none"
  /\ NoCall

\* line 95
pentagon_rgb == getrgb(pentagon_color)

\* line 96
edge_rgb == getrgb(IF edge_color # "None" THEN edge_color ELSE pentagon_color)

\* lines 93-123: colours, image, projection of the vertices
Setup ==
  /\ pc = "start"
  /\ vertex_lonlat' = project_vertices(lat_rotation, lon_rotation)
  /\ pc' = "interp"
  /\ face_no' = 1
  /\ i' = 0
  /\ UNCHANGED <<args, points, k, center, raster, ret, err, call>>

\* loop position change shared by InterpolateEdge and StampPoint
GoTo(pos) ==
  /\ pc' = pos.pc
  /\ face_no' = pos.face_no
  /\ i' = pos.i

\* lines 127-170: interpolate edge i of the current face
InterpolateEdge ==
  /\ pc = "interp"
  /\ LET face == FACES[face_no]
         start_idx == face[i + 1]
         end_idx == face[((i + 1) % Len(face)) + 1]
         res == arc_points(vertex_lonlat[start_idx + 1], vertex_lonlat[end_idx + 1],
                           interpolation_points)
     IN  IF res.err # "none"
         THEN /\ err' = res.err
              /\ pc' = "error"
              /\ UNCHANGED <<face_no, i, points, k, edges_drawn>>
         ELSE /\ points' = res.points
              /\ k' = 1
              /\ err' = err
              /\ IF res.points = <<>>
                 THEN GoTo(after_edge(face_no, i)) /\ edges_drawn' = edges_drawn + 1
                 ELSE pc' = "stamp" /\ UNCHANGED <<face_no, i, edges_drawn>>
  /\ UNCHANGED <<args, vertex_lonlat, center, ellipses, last_ellipse, fills, saves, ret, call>>

\* lines 172-179: stamp the next arc point
StampPoint ==
  /\ pc = "stamp"
  /\ ellipses' = ellipses + 1
  /\ last_ellipse' = ellipse(points[k][1], points[k][2], width, height, edge_thickness, edge_rgb)
  /\ IF k < Len(points)
     THEN k' = k + 1 /\ UNCHANGED <<pc, face_no, i, edges_drawn>>
     ELSE k' = k /\ GoTo(after_edge(face_no, i)) /\ edges_drawn' = edges_drawn + 1
  /\ UNCHANGED <<args, vertex_lonlat, points, center, fills, saves, ret, err, call>>

\* lines 182-226 up to the primary fill: skip a hexagon, or seed a pentagon
FillFace ==
  /\ pc = "fill"
  /\ LET face_list == FACES[face_no]
         c == face_center(face_list, vertex_lonlat, width, height)
     IN  IF is_pentagon(face_list)
         THEN /\ fills' = Append(fills, [face |-> face_no, kind |-> "center",
                                         xy |-> c, value |-> pentagon_rgb])
              /\ center' = c
              /\ IF mirror_seeds(c[1], c[2], width) # <<>>
                 THEN pc' = "mirror" /\ face_no' = face_no
                 ELSE pc' = after_fill(face_no).pc /\ face_no' = after_fill(face_no).face_no
         ELSE /\ pc' = after_fill(face_no).pc
              /\ face_no' = after_fill(face_no).face_no
              /\ UNCHANGED <<fills, center>>
  /\ UNCHANGED <<args, vertex_lonlat, i, points, k, ellipses, last_ellipse, edges_drawn,
                 saves, ret, err, call>>

\* lines 219-226: the seam-mirror fill of the pentagon just filled
MirrorFill ==
  /\ pc = "mirror"
  /\ fills' = Append(fills, [face |-> face_no, kind |-> "mirror",
                             xy |-> mirror_seeds(center[1], center[2], width)[1],
                             value |-> pentagon_rgb])
  /\ pc' = after_fill(face_no).pc
  /\ face_no' = after_fill(face_no).face_no
  /\ UNCHANGED <<args, vertex_lonlat, i, points, k, center, ellipses, last_ellipse,
                 edges_drawn, saves, ret, err, call>>

\* lines 228-232: return the image or save it
Finish ==
  /\ pc = "finish"
  /\ ret' = finish(file_name).ret
  /\ saves' = saves \o finish(file_name).saves
  /\ pc' = "done"
  /\ UNCHANGED <<args, vertex_lonlat, face_no, i, points, k, center, ellipses, last_ellipse,
                 edges_drawn, fills, err, call>>

Next ==
  \/ Setup
  \/ InterpolateEdge
  \/ StampPoint
  \/ FillFace
  \/ MirrorFill
  \/ Finish

Spec == Init /\ [][Next]_vars

\* ------------------------------------------------------------------------
\* Single calls of the pure parts
\* ------------------------------------------------------------------------

\* largest raster width and height of the small lonlat_to_xy instances
MaxW == 6

MaxH == 4

\* largest raster width of the exhaustive centroid instances
MaxCW == 7

\* main is not running
MainIdle ==
  /\ file_name = "None"
  /\ edge_thickness = 1
  /\ width = 1
  /\ height = 1
  /\ pentagon_color = "black"
  /\ edge_color = "None"
  /\ interpolation_points = 2
  /\ lat_rotation = 0
  /\ lon_rotation = 0
  /\ pc = "idle"
  /\ vertex_lonlat = <<>>
  /\ face_no = 1
  /\ i = 0
  /\ points = <<>>
  /\ k = 1
  /\ center = <<>>
  /\ ellipses = 0
  /\ last_ellipse = <<>>
  /\ edges_drawn = 0
  /\ fills = <<>>
  /\ saves = <<>>
  /\ ret = "-"
  /\ err = "none"

\* longitudes and latitudes in degrees: a 15-degree grid and the values next
\* to the ends of the ranges
LonDegs == {15 * S * d : d \in (-12)..12} \cup {-179999, -1, 1, 179999}

LatDegs == {15 * S * d : d \in (-6)..6} \cup {-89999, -1, 1, 89999}

RasterSizes == (1..MaxW) \X (1..MaxH) \cup Sizes

InitXY ==
  /\ MainIdle
  /\ fn = "lonlat_to_xy"
  /\ fn_args \in [lon_deg : LonDegs, lat_deg : LatDegs, size : RasterSizes]
  /\ fn_ret = <<>>

CallLonLatToXY ==
  /\ fn = "lonlat_to_xy"
  /\ fn_ret = <<>>
  /\ fn_ret' = << lonlat_to_xy(fn_args.lon_deg, fn_args.lat_deg, fn_args.size[1], fn_args.size[2]) >>
  /\ UNCHANGED <<args, locals, raster, ret, err, fn, fn_args>>

SpecXY == InitXY /\ [][CallLonLatToXY]_vars

\* u-coordinates of the pentagon of the seam example, on a 1024-wide raster
ExampleU == {10, 20, 1000, 1010, 1015}

InitCenter ==
  /\ MainIdle
  /\ fn = "center"
  /\ \/ \E w \in 1..MaxCW : fn_args \in [u_coords : [1..5 -> 0..(w - 1)], width : {w}]
     \/ fn_args \in [u_coords : [1..5 -> ExampleU], width : {1024}]
  /\ fn_ret = <<>>

CallCenter ==
  /\ fn = "center"
  /\ fn_ret = <<>>
  /\ fn_ret' = << center_u(fn_args.u_coords, fn_args.width) >>
  /\ UNCHANGED <<args, locals, raster, ret, err, fn, fn_args>>

SpecCenter == InitCenter /\ [][CallCenter]_vars

\* arc endpoints (lon_deg, lat_deg): no two distinct ones closer than 15
\* degrees, none antipodal to another
ArcEnds ==
  { <<0, 0>>, <<30 * S, 0>>, <<-45 * S, 30 * S>>, <<90 * S, 60 * S>>,
    <<120 * S, -30 * S>>, <<-150 * S, -75 * S>>, <<0, 90 * S>> }

InitArc ==
  /\ MainIdle
  /\ fn = "arc_points"
  /\ fn_args \in [start : ArcEnds, end : ArcEnds, n : 2..MaxPoints]
  /\ fn_ret = <<>>

CallArcPoints ==
  /\ fn = "arc_points"
  /\ fn_ret = <<>>
  /\ fn_ret' = << arc_points(fn_args.start, fn_args.end, fn_args.n) >>
  /\ UNCHANGED <<args, locals, raster, ret, err, fn, fn_args>>

SpecArc == InitArc /\ [][CallArcPoints]_vars

\* every whole degree of latitude
StrokeLats == {S * d : d \in (-90)..90}

InitStroke ==
  /\ MainIdle
  /\ fn = "ellipse"
  /\ fn_args \in [lon : {0, 179 * S}, lat : StrokeLats, size : Sizes, edge_thickness : 1..MaxThick]
  /\ fn_ret = <<>>

CallEllipse ==
  /\ fn = "ellipse"
  /\ fn_ret = <<>>
  /\ fn_ret' = << ellipse(fn_args.lon, fn_args.lat, fn_args.size[1], fn_args.size[2],
                         fn_args.edge_thickness, getrgb("black")) >>
  /\ UNCHANGED <<args, locals, raster, ret, err, fn, fn_args>>

SpecStroke == InitStroke /\ [][CallEllipse]_vars

\* largest raster width and height of the exhaustive seed instances
MaxSW == 4

MaxSH == 3

\* wider rasters: the narrowest with a left mirror fill (13), the narrowest
\* with a right one (25), and the two sizes of main
WideSizes == { <<13, 7>>, <<25, 12>> } \cup Sizes

\* u-coordinates at and around the seam margins of a wide raster
SeamU(w) == {0, margin(w), w \div 2, w - margin(w), w - 1}

\* v-coordinates: one vertex at a, the other four at b
VCoords(h) == { <<a, b, b, b, b>> : a \in 0..(h - 1), b \in 0..(h - 1) }

InitSeeds ==
  /\ MainIdle
  /\ fn = "fill_seeds"
  /\ \/ \E w \in 1..MaxSW, h \in 1..MaxSH :
          fn_args \in [u_coords : [1..5 -> 0..(w - 1)], v_coords : VCoords(h),
                       width : {w}, height : {h}]
     \/ \E size \in WideSizes :
          fn_args \in [u_coords : [1..5 -> SeamU(size[1])],
                       v_coords : VCoords(size[2]) \cap [1..5 -> {0, size[2] - 1}],
                       width : {size[1]}, height : {size[2]}]
  /\ fn_ret = <<>>

CallFillSeeds ==
  /\ fn = "fill_seeds"
  /\ fn_ret = <<>>
  /\ fn_ret' = << fill_seeds(fn_args.u_coords, fn_args.v_coords, fn_args.width) >>
  /\ UNCHANGED <<args, locals, raster, ret, err, fn, fn_args>>

SpecSeeds == InitSeeds /\ [][CallFillSeeds]_vars

\* ------------------------------------------------------------------------
\* Claims
\* ------------------------------------------------------------------------

\* the undirected edges of a face: consecutive vertex pairs and the closing pair
face_edges(face) == { {face[j], face[(j % Len(face)) + 1]} : j \in 1..Len(face) }

AllEdges == UNION { face_edges(FACES[f]) : f \in 1..Len(FACES) }

FacesWith(n) == { f \in 1..Len(FACES) : Len(FACES[f]) = n }

\* C1: the table FACES that main iterates holds exactly 32 faces, 12 of 5 vertices and 20 of 6 vertices, and
\* every undirected edge of a face belongs to exactly two faces of the table.
C1_FaceTable ==
  pc \in {"start", "interp", "stamp", "fill", "mirror", "finish", "done", "error"} =>
  /\ Len(FACES) = 32
  /\ Cardinality(FacesWith(5)) = 12
  /\ Cardinality(FacesWith(6)) = 20
  /\ \A e \in AllEdges :
       Cardinality({ f \in 1..Len(FACES) : e \in face_edges(FACES[f]) }) = 2

\* C2: with an interpolation point count below 2 main fails before any ellipse
\* is stamped and before any flood fill, writes no file and never completes.
C2_FailFast ==
  interpolation_points < 2 =>
    /\ ellipses = 0
    /\ fills = <<>>
    /\ saves = <<>>
    /\ pc \notin {"fill", "mirror", "finish", "done"}

C4_PixelInRaster ==
  (fn = "lonlat_to_xy" /\ fn_ret # <<>>) =>
    LET u == fn_ret[1][1]
        v == fn_ret[1][2]
        w == fn_args.size[1]
        h == fn_args.size[2]
    IN  /\ 0 <= u /\ u <= w - 1
        /\ 0 <= v /\ v <= h - 1
        /\ fn_args.lon_deg = -180 * S => u = 0
        /\ fn_args.lon_deg = 180 * S => u = 0
        /\ fn_args.lat_deg = 90 * S => v = 0
        /\ fn_args.lat_deg = -90 * S => v = h - 1

\* C4 case: the call returned for longitude +180 and latitude -90 on a raster
\* wider and higher than one pixel
C4_Witness ==
  /\ fn = "lonlat_to_xy"
  /\ fn_ret # <<>>
  /\ fn_args.lon_deg = 180 * S
  /\ fn_args.lat_deg = -90 * S
  /\ fn_args.size = <<1024, 512>>
  /\ fn_ret[1] = <<0, 511>>

\* number of edges main draws: one per vertex of every face
TotalEdges == SumSeq([f \in 1..Len(FACES) |-> Len(FACES[f])])

IsCenterFill(f) == f.kind = "center"

IsMirrorFill(f) == f.kind = "mirror"

HasFiveVertices(f) == Len(FACES[f]) = 5

\* the numbers of the 5-vertex faces, in table order
Pentagons == SelectSeq([f \in 1..Len(FACES) |-> f], HasFiveVertices)

\* C5: every flood fill (primary or mirror) happens after the last ellipse of
\* the last edge of the last face: once a fill exists main is in the fill
\* loop or beyond, every edge is drawn and all ellipses are stamped.
C5_FillsAfterStrokes ==
  fills # <<>> =>
    /\ pc \in {"fill", "mirror", "finish", "done"}
    /\ edges_drawn = TotalEdges
    /\ ellipses = TotalEdges * Max(0, interpolation_points)

\* C5 case: ellipses were stamped and a primary and a mirror fill were made
C5_Witness ==
  /\ ellipses > 0
  /\ Len(fills) >= 2
  /\ \E j \in 1..Len(fills) : IsMirrorFill(fills[j])

\* C6: without an output path main returns the raster and saves nothing; with
\* an output path it saves to that path exactly once, after all strokes and
\* fills, and returns None.
C6_DualMode ==
  /\ pc # "done" => (ret = "-" /\ saves = <<>>)
  /\ pc = "done" =>
       /\ edges_drawn = TotalEdges
       /\ Len(SelectSeq(fills, IsCenterFill)) = Len(Pentagons)
       /\ IF file_name = "None"
          THEN ret = "img" /\ saves = <<>>
          ELSE ret = "None" /\ saves = <<file_name>>

\* C6 case: a run with an output path ended after strokes and fills
C6_Witness ==
  /\ pc = "done"
  /\ file_name = "soccer_ball_texture.png"
  /\ saves = <<file_name>>
  /\ ellipses > 0
  /\ fills # <<>>

SetMin(s) == CHOOSE x \in s : \A y \in s : x <= y

SetMax(s) == CHOOSE x \in s : \A y \in s : x >= y

\* C7: for five u with max - min > width/2, each within width/4 of the seam,
\* center_u is the mean of the u with width added to every u < width/2,
\* truncated and reduced mod width, and lies on the arc through the seam from
\* the smallest right-side u to the largest left-side u.
C7_SeamCentroid ==
  (fn = "center" /\ fn_ret # <<>>) =>
    LET u == fn_args.u_coords
        w == fn_args.width
        cu == fn_ret[1]
        left == { u[j] : j \in {n \in 1..5 : 4 * u[n] < w} }
        right == { u[j] : j \in {n \in 1..5 : 4 * u[n] >= 3 * w} }
        shifted == Cardinality({ j \in 1..5 : 2 * u[j] < w })
    IN  ( /\ 2 * (MaxSeq(u) - MinSeq(u)) > w
          /\ \A j \in 1..5 : 4 * u[j] < w \/ 4 * u[j] >= 3 * w )
        => /\ cu = ((SumSeq(u) + shifted * w) \div 5) % w
           /\ \/ SetMin(right) <= cu /\ cu <= w - 1
              \/ 0 <= cu /\ cu <= SetMax(left)

\* C7 case: the seam example, u = [10, 20, 1000, 1010, 1015] on width 1024
C7_Witness ==
  /\ fn = "center"
  /\ fn_args.u_coords = <<10, 20, 1000, 1010, 1015>>
  /\ fn_args.width = 1024
  /\ fn_ret = <<1020>>

\* horizontal and vertical half-axes of the ellipse call returned in fn_ret
StampRx == (fn_ret[1].xy[3] - fn_ret[1].xy[1]) \div 2

StampRy == (fn_ret[1].xy[4] - fn_ret[1].xy[2]) \div 2

\* max(0.001, cos(|lat|)) of the call's latitude
StampCos == Max(1, MathCos(Radians(Abs(fn_args.lat))))

\* C8 as stated: rx = round(stroke_width * lat_factor), ry = stroke_width,
\* rx = ry at lat = 0 and rx > ry near the poles.
C8_RoundedRadius ==
  (fn = "ellipse" /\ fn_ret # <<>>) =>
    /\ StampRy = fn_args.edge_thickness
    /\ StampRx = PyRound(fn_args.edge_thickness * FDiv(S, StampCos))
    /\ fn_args.lat = 0 => StampRx = StampRy
    /\ Abs(fn_args.lat) >= 80 * S => StampRx > StampRy

\* C8 amended: rx = int(stroke_width * lat_factor), the product truncated and
\* not rounded (rx <= product < rx + 1), with lat_factor = 1/max(0.001,
\* cos(|lat|)); ry = stroke_width; rx = ry at lat = 0 and rx > ry for |lat|
\* of 80 degrees and more.
C8_TruncatedRadius ==
  (fn = "ellipse" /\ fn_ret # <<>>) =>
    LET t == fn_args.edge_thickness
        factor == FDiv(S, StampCos)
    IN  /\ StampRy = t
        /\ StampRx * S <= t * factor
        /\ t * factor < (StampRx + 1) * S
        /\ fn_args.lat = 0 => StampRx = StampRy
        /\ Abs(fn_args.lat) >= 80 * S => StampRx > StampRy

\* C8 case: thickness 2 at latitude 85: the product is 22.9 and rx is 22
C8_Witness ==
  /\ fn = "ellipse"
  /\ fn_ret # <<>>
  /\ fn_args.lat = 85 * S
  /\ fn_args.edge_thickness = 2
  /\ StampRx = 22
  /\ StampRy = 2

\* C9: only 5-vertex faces are seeded: the primary fills are those of the
\* pentagons in table order, one each, at the pentagon's centroid and in the
\* pentagon colour; no fill belongs to a 6-vertex face.
C9_OnlyPentagonsSeeded ==
  LET centers == SelectSeq(fills, IsCenterFill)
  IN  /\ \A j \in 1..Len(fills) :
           /\ Len(FACES[fills[j].face]) = 5
           /\ fills[j].value = pentagon_rgb
      /\ Len(centers) <= Len(Pentagons)
      /\ \A j \in 1..Len(centers) :
           /\ centers[j].face = Pentagons[j]
           /\ centers[j].xy = face_center(FACES[Pentagons[j]], vertex_lonlat, width, height)
      /\ pc \in {"finish", "done"} => Len(centers) = Len(Pentagons)

\* C9 case: the fill loop ended after strokes, with all twelve pentagons seeded
C9_Witness ==
  /\ pc = "done"
  /\ ellipses > 0
  /\ Len(SelectSeq(fills, IsCenterFill)) = 12

\* C10: with margin = floor(0.08 * width), a pentagon whose center_u is below
\* the margin gets one more fill at (width-1, center_v), one whose center_u is
\* above width - margin gets one more at (1, center_v), any other gets none;
\* the mirror fill directly follows the pentagon's primary fill, there is at
\* most one, and the two cases exclude each other.
C10_SeamMirror ==
  LET m == (8 * width) \div 100
      NearLeft(f) == f.xy[1] < m
      NearRight(f) == f.xy[1] > width - m
  IN  \A j \in 1..Len(fills) :
        /\ IsMirrorFill(fills[j]) =>
             /\ j > 1
             /\ IsCenterFill(fills[j - 1])
             /\ fills[j - 1].face = fills[j].face
             /\ \/ NearLeft(fills[j - 1]) /\ fills[j].xy = <<width - 1, fills[j - 1].xy[2]>>
                \/ NearRight(fills[j - 1]) /\ fills[j].xy = <<1, fills[j - 1].xy[2]>>
        /\ IsCenterFill(fills[j]) =>
             /\ ~(NearLeft(fills[j]) /\ NearRight(fills[j]))
             /\ IF NearLeft(fills[j]) \/ NearRight(fills[j])
                THEN IF j = Len(fills) THEN pc = "mirror" ELSE IsMirrorFill(fills[j + 1])
                ELSE IF j = Len(fills) THEN pc # "mirror" ELSE IsCenterFill(fills[j + 1])

\* C10 case: one pentagon was mirrored to column width-1 and another to column 1
C10_Witness ==
  \E j, l \in 1..Len(fills) :
    /\ IsMirrorFill(fills[j]) /\ fills[j].xy[1] = width - 1
    /\ IsMirrorFill(fills[l]) /\ fills[l].xy[1] = 1

\* C11: for width, height >= 1 and vertex pixels inside the raster, every
\* flood-fill seed of a pentagon lies inside the raster: the primary seed in
\* the wrap-around and in the plain branch, and a mirror seed (width-1,
\* center_v) or (1, center_v) whenever one is issued.
C11_SeedsInRaster ==
  (fn = "fill_seeds" /\ fn_ret # <<>>) =>
    /\ Len(fn_ret[1]) \in {1, 2}
    /\ \A j \in 1..Len(fn_ret[1]) :
         /\ 0 <= fn_ret[1][j][1] /\ fn_ret[1][j][1] <= fn_args.width - 1
         /\ 0 <= fn_ret[1][j][2] /\ fn_ret[1][j][2] <= fn_args.height - 1
    /\ Len(fn_ret[1]) = 2 => fn_ret[1][2][1] \in {1, fn_args.width - 1}

\* C11 case: a pentagon across the seam of a 25-wide raster (wrap-around
\* branch), centred in the last column and mirrored to column 1
C11_Witness ==
  /\ fn = "fill_seeds"
  /\ fn_args.width = 25
  /\ fn_args.u_coords = <<0, 24, 24, 24, 24>>
  /\ fn_args.v_coords = <<0, 11, 11, 11, 11>>
  /\ fn_ret = << << <<24, 8>>, <<1, 8>> >> >>
====
